---- MODULE Spec2Model ----
(***************************************************************************)
(* Model of path_fan_speed.py: process_lines, the line rewriter that tags  *)
(* M106 fan-speed lines with the tool of the last M108 tool marker and     *)
(* re-asserts the last fan speed after every tool change.                  *)
(*                                                                         *)
(* A Python str is a sequence of one-character strings; None is the        *)
(* one-element sequence <<"None">>, which no text equals.                  *)
(***************************************************************************)
EXTENDS Integers, Sequences, FiniteSets, TLC

\* lines: the input lines the loop has read so far, in order
\* out, current_tool, last_fan_speed: the locals of process_lines
\* pc: "loop" while the for loop runs, "done" once out is returned
VARIABLES lines, out, current_tool, last_fan_speed, pc

vars == <<lines, out, current_tool, last_fan_speed, pc>>

None == <<"None">>

(***************************************************************************)
(* Character classes of Python's re and str on the characters lines are    *)
(* built from.                                                             *)
(***************************************************************************)
Digits == {"0", "1", "2", "3", "4", "5", "6", "7", "8", "9"}

\* str.upper() of each lower-case letter
UpperOf ==
    [a |-> "A", b |-> "B", c |-> "C", d |-> "D", e |-> "E", f |-> "F", g |-> "G",
     h |-> "H", i |-> "I", j |-> "J", k |-> "K", l |-> "L", m |-> "M", n |-> "N",
     o |-> "O", p |-> "P", q |-> "Q", r |-> "R", s |-> "S", t |-> "T", u |-> "U",
     v |-> "V", w |-> "W", x |-> "X", y |-> "Y", z |-> "Z"]

LowerLetters == DOMAIN UpperOf

UpperLetters == { UpperOf[c] : c \in LowerLetters }

WordChars == Digits \cup LowerLetters \cup UpperLetters \cup {"_"}

SpaceChars == {" ", "\t", "\n", "\r", "\f"}

\* \d
IsDigit(c) == c \in Digits

\* \s, and the characters str.lstrip() and str.rstrip() remove
IsSpace(c) == c \in SpaceChars

\* \w
IsWord(c) == c \in WordChars

\* str.upper() on one character; also how re.IGNORECASE compares letters
Upper(c) == IF c \in LowerLetters THEN UpperOf[c] ELSE c

UpperStr(s) == [i \in DOMAIN s |-> Upper(s[i])]

\* s[a:b] with 1-based inclusive bounds; empty when a > b
Slice(s, a, b) == IF a > b THEN <<>> ELSE SubSeq(s, a, b)

\* s[a:]
From(s, a) == Slice(s, a, Len(s))

\* str.endswith
EndsWith(s, suf) ==
    /\ Len(suf) <= Len(s)
    /\ Slice(s, Len(s) - Len(suf) + 1, Len(s)) = suf

\* str.startswith
StartsWith(s, pre) ==
    /\ Len(pre) <= Len(s)
    /\ Slice(s, 1, Len(pre)) = pre

\* \b between s[p-1] and s[p] (p in 1..Len(s)+1)
Boundary(s, p) ==
    LET before == p > 1 /\ IsWord(s[p - 1])
        after == p <= Len(s) /\ IsWord(s[p])
    IN  before # after

\* first position >= p of s that does not satisfy the class (Len(s)+1 if none):
\* the end of a greedy \s* or \d* that starts at p
RECURSIVE SkipSpace(_, _)
SkipSpace(s, p) ==
    IF p <= Len(s) /\ IsSpace(s[p]) THEN SkipSpace(s, p + 1) ELSE p

RECURSIVE SkipDigits(_, _)
SkipDigits(s, p) ==
    IF p <= Len(s) /\ IsDigit(s[p]) THEN SkipDigits(s, p + 1) ELSE p

\* str.lstrip()
LStrip(s) == From(s, SkipSpace(s, 1))

\* str.rstrip()
RECURSIVE RStrip(_)
RStrip(s) ==
    IF Len(s) > 0 /\ IsSpace(s[Len(s)]) THEN RStrip(Slice(s, 1, Len(s) - 1)) ELSE s

CRLF == <<"\r", "\n">>

LF == <<"\n">>

\* Eol with the newline style lost: every line is written with LF
EolAlwaysLF(line) == LF

\* eol of the loop body
Eol(line) == IF EndsWith(line, CRLF) THEN CRLF ELSE LF

\* stripped of the loop body
Stripped(line) ==
    IF EndsWith(line, CRLF) THEN Slice(line, 1, Len(line) - 2)
    ELSE IF EndsWith(line, LF) THEN Slice(line, 1, Len(line) - 1)
    ELSE line

M108 == <<"M", "1", "0", "8">>

M106 == <<"M", "1", "0", "6">>

\* tool_re with $ in place of the final \b: nothing may follow the digits
ToolMatchToEnd(s) ==
    LET a == SkipSpace(s, 1)
        c == SkipSpace(s, a + 4)
        e == SkipDigits(s, c + 1)
    IN  IF /\ StartsWith(UpperStr(From(s, a)), <<"M", "1", "0", "8">>)
           /\ c > a + 4
           /\ c <= Len(s)
           /\ Upper(s[c]) = "T"
           /\ e > c + 1
           /\ e > Len(s)
        THEN Slice(s, c + 1, e - 1)
        ELSE <<"None">>

(***************************************************************************)
(* tool_re.match(s): ^\s*M108\s+T(\d+)\b, case-insensitive.  Every         *)
(* quantifier is followed by a character outside its class, so the greedy  *)
(* match is the only one.  The result is group(1), or None.                *)
(***************************************************************************)
ToolMatch(s) ==
    LET a == SkipSpace(s, 1)
        b == a + 4
        c == SkipSpace(s, b)
        d == c + 1
        e == SkipDigits(s, d)
    IN  IF /\ StartsWith(UpperStr(From(s, a)), M108)
           /\ c > b
           /\ c <= Len(s)
           /\ Upper(s[c]) = "T"
           /\ e > d
           /\ Boundary(s, e)
        THEN Slice(s, d, e - 1)
        ELSE None

\* SpeedEndAt without the \b before S: an S inside an identifier also starts a
\* speed parameter
SpeedEndAtAnywhere(s, p) ==
    LET b == IF p + 1 <= Len(s) /\ s[p + 1] = "-" THEN p + 2 ELSE p + 1
        c == SkipDigits(s, b)
        e == SkipDigits(s, c + 1)
        frac == c <= Len(s) /\ s[c] = "." /\ e > c + 1 /\ Boundary(s, e)
    IN  IF ~(p <= Len(s) /\ Upper(s[p]) = "S" /\ c > b) THEN 0
        ELSE IF frac THEN e
        ELSE IF Boundary(s, c) THEN c
        ELSE 0

(***************************************************************************)
(* The attempt of (?i)\bS(-?\d+(?:\.\d+)?)\b at position p of s: the end   *)
(* of group(1) (exclusive), or 0 when the attempt fails.  The digit runs   *)
(* are maximal (a shorter run ends between two digits, where \b fails);    *)
(* the fraction is tried first and given up when no \b follows it.         *)
(***************************************************************************)
SpeedEndAt(s, p) ==
    LET a == p + 1
        b == IF a <= Len(s) /\ s[a] = "-" THEN a + 1 ELSE a
        c == SkipDigits(s, b)
        d == c + 1
        e == SkipDigits(s, d)
        frac == c <= Len(s) /\ s[c] = "." /\ e > d /\ Boundary(s, e)
    IN  IF ~(Boundary(s, p) /\ p <= Len(s) /\ Upper(s[p]) = "S" /\ c > b) THEN 0
        ELSE IF frac THEN e
        ELSE IF Boundary(s, c) THEN c
        ELSE 0

\* re.search(r"(?i)\bS(-?\d+(?:\.\d+)?)\b", code): group(1) of the leftmost
\* match, or None
RECURSIVE SpeedFrom(_, _)
SpeedFrom(s, p) ==
    IF p > Len(s) THEN None
    ELSE IF SpeedEndAt(s, p) > 0 THEN Slice(s, p + 1, SpeedEndAt(s, p) - 1)
    ELSE SpeedFrom(s, p + 1)

SpeedSearch(code) == SpeedFrom(code, 1)

(***************************************************************************)
(* The attempt of (?i)\s*T\d+\b at position p of s: the end of the match   *)
(* (exclusive), or 0.                                                      *)
(***************************************************************************)
ToolParamEndAt(s, p) ==
    LET a == SkipSpace(s, p)
        b == a + 1
        c == SkipDigits(s, b)
    IN  IF a <= Len(s) /\ Upper(s[a]) = "T" /\ c > b /\ Boundary(s, c) THEN c ELSE 0

\* re.sub(r"(?i)\s*T\d+\b", "", code): the leftmost non-overlapping matches
\* are deleted, everything else is copied
RECURSIVE RemoveFrom(_, _)
RemoveFrom(s, p) ==
    IF p > Len(s) THEN <<>>
    ELSE IF ToolParamEndAt(s, p) > 0 THEN RemoveFrom(s, ToolParamEndAt(s, p))
    ELSE <<s[p]>> \o RemoveFrom(s, p + 1)

RemoveToolParams(code) == RemoveFrom(code, 1)

\* position of the first ";" of s, or 0
RECURSIVE FindSemi(_, _)
FindSemi(s, p) ==
    IF p > Len(s) THEN 0
    ELSE IF s[p] = ";" THEN p
    ELSE FindSemi(s, p + 1)

\* parts[0] of stripped.split(";", 1)
CodePart(s) == IF FindSemi(s, 1) = 0 THEN s ELSE Slice(s, 1, FindSemi(s, 1) - 1)

\* comment_suffix
CommentSuffix(s) == IF FindSemi(s, 1) = 0 THEN <<>> ELSE From(s, FindSemi(s, 1))

(***************************************************************************)
(* The three branches of the loop body, as functions of the line and of    *)
(* the rewriter state it is processed in.                                  *)
(***************************************************************************)

\* m_tool is not None
IsToolLine(line) == ToolMatch(Stripped(line)) # None

\* stripped.lstrip().upper().startswith("M106")
IsFanKeyword(line) == StartsWith(UpperStr(LStrip(Stripped(line))), M106)

\* IsFanRewrite without "and current_tool is not None"
IsFanRewriteNoToolCheck(line, tool) ==
    /\ ~IsToolLine(line)
    /\ IsFanKeyword(line)
    /\ SpeedSearch(CodePart(Stripped(line))) # None

\* IsFanRewrite without "if s_match"
IsFanRewriteNoSpeedCheck(line, tool) ==
    /\ ~IsToolLine(line)
    /\ IsFanKeyword(line)
    /\ tool # None

\* the line enters the rewrite: keyword, a tool is set, s_match is not None
IsFanRewrite(line, tool) ==
    /\ ~IsToolLine(line)
    /\ IsFanKeyword(line)
    /\ tool # None
    /\ SpeedSearch(CodePart(Stripped(line))) # None

\* SynthLine ending in "\n" whatever the eol of the tool-select line
SynthLineLF(speed, tool, eol) ==
    M106 \o <<" ", "S">> \o speed \o <<" ", "T">> \o tool \o LF

\* f"M106 S{last_fan_speed} T{current_tool}" + eol
SynthLine(speed, tool, eol) ==
    M106 \o <<" ", "S">> \o speed \o <<" ", "T">> \o tool \o eol

\* ToolEmit without "if last_fan_speed is not None"
ToolEmitAlways(line, speed) ==
    << Stripped(line) \o Eol(line),
       SynthLine(speed, ToolMatch(Stripped(line)), Eol(line)) >>

\* ToolEmit with the synthesized line appended before the tool marker
ToolEmitSynthFirst(line, speed) ==
    IF speed # None
    THEN << SynthLine(speed, ToolMatch(Stripped(line)), Eol(line)),
            Stripped(line) \o Eol(line) >>
    ELSE << Stripped(line) \o Eol(line) >>

\* what the tool-marker branch appends to out
ToolEmit(line, speed) ==
    LET first == Stripped(line) \o Eol(line)
    IN  IF speed # None
        THEN <<first, SynthLine(speed, ToolMatch(Stripped(line)), Eol(line))>>
        ELSE <<first>>

\* FanRewriteLine without the space between new_code and comment_suffix
FanRewriteLineNoSep(line, tool) ==
    RStrip(RemoveToolParams(CodePart(Stripped(line)))) \o <<" ", "T">> \o tool
        \o CommentSuffix(Stripped(line)) \o Eol(line)

\* new_line + eol of the rewrite branch
FanRewriteLine(line, tool) ==
    LET stripped == Stripped(line)
        comment_suffix == CommentSuffix(stripped)
        code_no_t == RemoveToolParams(CodePart(stripped))
        new_code == RStrip(code_no_t) \o <<" ", "T">> \o tool
        sep == IF comment_suffix # <<>> /\ ~EndsWith(new_code, <<" ">>)
               THEN <<" ">> ELSE <<>>
    IN  new_code \o sep \o comment_suffix \o Eol(line)

\* out.append(stripped + eol) of the default branch
PassLine(line) == Stripped(line) \o Eol(line)

(***************************************************************************)
(* Input lines.  main() hands process_lines text.splitlines(True): every   *)
(* line but the last ends in a terminator, and no line is empty.           *)
(***************************************************************************)
SP == <<" ">>

G1X1 == <<"G", "1", " ", "X", "1">>

\* terminated lines of the runs of Spec
Lines ==
    { M108 \o SP \o <<"T", "1">> \o LF,
      <<"m", "1", "0", "8", " ", " ", "t", "0", "2">> \o CRLF,
      M106 \o SP \o <<"S", "5", "0">> \o LF,
      M106 \o SP \o <<"S", "-", "0", ".", "5", " ", "T", "9", ";", "c">> \o CRLF,
      M106 \o LF,
      M106 \o SP \o <<"S", "7", " ", " ", ";", "S", "9", " ", "T", "3">> \o LF,
      G1X1 \o LF,
      G1X1 \o CRLF }

\* lines without terminator: the last line of a file that does not end in one
LastLines ==
    { G1X1,
      M108 \o SP \o <<"T", "3">>,
      M106 \o SP \o <<"S", "7">> }

\* number of lines of the input
MaxLines == 4

Init ==
    /\ lines = <<>>
    /\ out = <<>>
    /\ current_tool = None
    /\ last_fan_speed = None
    /\ pc = "loop"

\* the for loop has a next line: the lines read so far all ended in a terminator
HasNext ==
    /\ pc = "loop"
    /\ Len(lines) < MaxLines
    /\ IF lines = <<>> THEN TRUE ELSE EndsWith(lines[Len(lines)], LF)

\* ToolSelectLine forgetting the saved speed once it has re-asserted it
ToolSelectLineReset(line) ==
    /\ IsToolLine(line)
    /\ lines' = Append(lines, line)
    /\ current_tool' = ToolMatch(Stripped(line))
    /\ out' = out \o ToolEmit(line, last_fan_speed)
    /\ last_fan_speed' = None
    /\ UNCHANGED pc

\* loop body, branch "if m_tool"
ToolSelectLine(line) ==
    /\ IsToolLine(line)
    /\ lines' = Append(lines, line)
    /\ current_tool' = ToolMatch(Stripped(line))
    /\ out' = out \o ToolEmit(line, last_fan_speed)
    /\ UNCHANGED <<last_fan_speed, pc>>

\* loop body, branch "if s_match"
FanSpeedLine(line) ==
    /\ IsFanRewrite(line, current_tool)
    /\ lines' = Append(lines, line)
    /\ last_fan_speed' = SpeedSearch(CodePart(Stripped(line)))
    /\ out' = Append(out, FanRewriteLine(line, current_tool))
    /\ UNCHANGED <<current_tool, pc>>

\* loop body, default branch
DefaultLine(line) ==
    /\ ~IsToolLine(line)
    /\ ~IsFanRewrite(line, current_tool)
    /\ lines' = Append(lines, line)
    /\ out' = Append(out, PassLine(line))
    /\ UNCHANGED <<current_tool, last_fan_speed, pc>>

\* the input is exhausted: return out
Return ==
    /\ pc = "loop"
    /\ pc' = "done"
    /\ UNCHANGED <<lines, out, current_tool, last_fan_speed>>

Next ==
    \/ HasNext /\ \E line \in Lines \cup LastLines : ToolSelectLine(line)
    \/ HasNext /\ \E line \in Lines \cup LastLines : FanSpeedLine(line)
    \/ HasNext /\ \E line \in Lines \cup LastLines : DefaultLine(line)
    \/ Return

Spec == Init /\ [][Next]_vars

(***************************************************************************)
(* process_lines as a function of the whole list: the loop, folded.        *)
(***************************************************************************)
RECURSIVE RunFrom(_, _, _, _)
RunFrom(ls, i, tool, speed) ==
    IF i > Len(ls) THEN <<>>
    ELSE IF IsToolLine(ls[i])
    THEN ToolEmit(ls[i], speed) \o RunFrom(ls, i + 1, ToolMatch(Stripped(ls[i])), speed)
    ELSE IF IsFanRewrite(ls[i], tool)
    THEN <<FanRewriteLine(ls[i], tool)>>
         \o RunFrom(ls, i + 1, tool, SpeedSearch(CodePart(Stripped(ls[i]))))
    ELSE <<PassLine(ls[i])>> \o RunFrom(ls, i + 1, tool, speed)

ProcessLines(ls) == RunFrom(ls, 1, None, None)

(***************************************************************************)
(* SpecLine: the runs whose last line is drawn from RichLines, a wider set *)
(* of single lines that exercises the three patterns; the lines before it  *)
(* come from PrefixLines and put the rewriter in each of its states.       *)
(***************************************************************************)
PrefixLines ==
    { M108 \o SP \o <<"T", "1">> \o LF,
      M106 \o SP \o <<"S", "5", "0">> \o LF }

FanKeywords == { M106, <<" ", "m", "1", "0", "6">> }

ParamTokens ==
    { <<"S", "5", "0">>,
      <<"s", "-", "0", ".", "5">>,
      <<"S", "1", "e", "5">>,
      <<"X", "S", "5", "0">>,
      <<"S", "5", ".">>,
      <<"T", "9">>,
      <<"t", "0", "2">>,
      <<"X", "T", "5">>,
      <<"T", "1", "T", "2">>,
      <<"T", "9", "T", "2">>,
      <<"S">>,
      <<"X", "1">> }

FanParams ==
    {<<>>}
    \cup { SP \o a : a \in ParamTokens }
    \cup { SP \o a \o SP \o b : a \in ParamTokens, b \in ParamTokens }

FanTails ==
    { <<>>,
      <<" ">>,
      <<";", "c">>,
      <<" ", " ", ";", "S", "9", " ", "T", "3">> }

FanLines == { k \o p \o t \o LF : k \in FanKeywords, p \in FanParams, t \in FanTails }

ToolKeywords == { M108, <<" ", "m", "1", "0", "8">> }

ToolSeparators == { <<>>, <<" ">>, <<"\t", " ">> }

ToolTokens ==
    { <<"T", "1">>,
      <<"t", "0", "2">>,
      <<"T", "1", "x">>,
      <<"T">>,
      <<"T", "-", "1">> }

ToolTails ==
    { <<>>,
      <<" ", "S", "5">>,
      <<";", "c">>,
      <<".", "5">> }

ToolLines ==
    { k \o s \o t \o e \o LF :
        k \in ToolKeywords, s \in ToolSeparators, t \in ToolTokens, e \in ToolTails }

OtherLines ==
    { G1X1 \o LF,
      LF,
      <<";">> \o M106 \o SP \o <<"S", "5", "\n">>,
      <<"M", "1", "0", "6", "7", " ", "S", "5", "\n">>,
      <<"M", "1", "0", "6", "S", "5", "0", "\n">>,
      <<"M", "1", "0", "7", "\n">> }

RichLines == FanLines \cup ToolLines \cup OtherLines

\* the loop has a next line, and the lines read so far are prefix lines
HasNextLine ==
    /\ HasNext
    /\ IF lines = <<>> THEN TRUE ELSE lines[Len(lines)] \in PrefixLines

NextLine ==
    \/ HasNextLine /\ \E line \in PrefixLines \cup RichLines : ToolSelectLine(line)
    \/ HasNextLine /\ \E line \in PrefixLines \cup RichLines : FanSpeedLine(line)
    \/ HasNextLine /\ \E line \in PrefixLines \cup RichLines : DefaultLine(line)
    \/ Return

SpecLine == Init /\ [][NextLine]_vars

(***************************************************************************)
(* Vocabulary of the properties.                                           *)
(***************************************************************************)

\* a step of the loop body: one more line has been read
LineStep == lines' # lines

\* the line the step processes
NewLine == lines'[Len(lines')]

\* the lines the step appends to out
Added == Slice(out', Len(out) + 1, Len(out'))

\* the line carries a speed parameter in its pre-comment portion
HasSpeed(line) == SpeedSearch(CodePart(Stripped(line))) # None

\* input line i comes after a tool-select line
ToolSeenBefore(i) == \E k \in 1..(i - 1) : IsToolLine(lines[k])

\* input line i is a fan-speed line that the run rewrote
Rewritten(i) ==
    /\ ~IsToolLine(lines[i])
    /\ IsFanKeyword(lines[i])
    /\ HasSpeed(lines[i])
    /\ ToolSeenBefore(i)

\* input line i is a tool-select line that follows a rewritten fan-speed line
Reasserts(i) ==
    /\ IsToolLine(lines[i])
    /\ \E j \in 1..(i - 1) : Rewritten(j)

\* the text of a line without its terminator
Content(line) ==
    IF Len(line) >= 2 /\ line[Len(line) - 1] = "\r" /\ line[Len(line)] = "\n"
    THEN Slice(line, 1, Len(line) - 2)
    ELSE IF Len(line) >= 1 /\ line[Len(line)] = "\n"
    THEN Slice(line, 1, Len(line) - 1)
    ELSE line

\* the terminator of a line: "CRLF", "LF" or "none"
Terminator(line) ==
    IF Len(line) >= 2 /\ line[Len(line) - 1] = "\r" /\ line[Len(line)] = "\n" THEN "CRLF"
    ELSE IF Len(line) >= 1 /\ line[Len(line)] = "\n" THEN "LF"
    ELSE "none"

\* o is line unchanged: the same text, and the same bytes when line is terminated
SameText(line, o) ==
    /\ Content(o) = Content(line)
    /\ Terminator(line) # "none" => o = line

\* the leading whitespace of a line and the four characters after it
KeywordPrefix(line) == Slice(line, 1, Len(line) - Len(LStrip(line)) + 4)

\* what C1 says of one step
C1_Step ==
    /\ ~LineStep => out' = out
    /\ LineStep =>
        /\ lines' = Append(lines, NewLine)
        /\ Slice(out', 1, Len(out)) = out
        /\ Len(Added) = IF IsToolLine(NewLine) /\ last_fan_speed # None THEN 2 ELSE 1
        /\ \/ Content(Added[1]) = Content(NewLine)
           \/ /\ IsFanKeyword(NewLine) /\ HasSpeed(NewLine) /\ current_tool # None
              /\ StartsWith(Added[1], KeywordPrefix(NewLine))
        /\ Len(Added) = 2 =>
             StartsWith(Added[2], M106 \o <<" ", "S">> \o last_fan_speed)

C1_Length ==
    Len(out) = Len(lines) + Cardinality({ i \in DOMAIN lines : Reasserts(i) })

\* C1: every step of the loop keeps what was emitted before, emits exactly one
\* counterpart of the line it reads, and emits one more line, a synthesized
\* fan-speed line, exactly when the line is a tool-select line read while
\* last_fan_speed is set; so the output is as long as the input plus the number
\* of tool-select lines that follow a rewritten fan-speed line.
C1_OnePerLinePlusSynth == [][C1_Step]_vars /\ []C1_Length

C1_Witness ==
    /\ pc = "done"
    /\ Len(lines) = 4
    /\ Len(out) = 5
    /\ IsToolLine(lines[1])
    /\ IsToolLine(lines[4])

\* the step processes a fan-speed-keyword line with a speed parameter while a
\* tool is set: the line is rewritten
RewriteStep ==
    /\ LineStep
    /\ ~IsToolLine(NewLine)
    /\ IsFanKeyword(NewLine)
    /\ HasSpeed(NewLine)
    /\ current_tool # None

\* C2: a line that is neither a tool-select line nor a rewritten fan-speed line
\* is emitted byte-identical, terminator included, also when it has no
\* terminator, and leaves the rewriter state unchanged.
C2_PassThroughIdentical ==
    [][ (LineStep /\ ~IsToolLine(NewLine) /\ ~RewriteStep) =>
            /\ Added = <<NewLine>>
            /\ UNCHANGED <<current_tool, last_fan_speed>> ]_vars

\* the last rewritten fan-speed line of the input read so far
LastRewritten ==
    CHOOSE j \in DOMAIN lines :
        Rewritten(j) /\ \A k \in DOMAIN lines : Rewritten(k) => k <= j

\* what C3 says of one step
C3_Step ==
    (LineStep /\ IsToolLine(NewLine) /\ last_fan_speed # None) =>
        /\ \E j \in DOMAIN lines : Rewritten(j)
        /\ Len(Added) = 2
        /\ Content(Added[1]) = Content(NewLine)
        /\ Content(Added[2]) =
             M106 \o <<" ", "S">>
                  \o SpeedSearch(CodePart(Stripped(lines[LastRewritten])))
                  \o <<" ", "T">> \o ToolMatch(Stripped(NewLine))

\* C3: a tool-select line read while last_fan_speed is set is emitted with its
\* text unchanged, and the next output line is M106 S<speed> T<n>: n the digits
\* of this line, speed the speed token of the last fan-speed line rewritten
\* before it, both character for character.
C3_ReassertsLastSpeed == [][C3_Step]_vars

\* the older speed 50 is dropped; -0.5 and 02 are re-emitted as written
C3_Witness ==
    /\ pc = "done"
    /\ Len(lines) = 4
    /\ Len(out) = 5
    /\ Content(lines[2]) = M106 \o <<" ", "S", "5", "0">>
    /\ Rewritten(2)
    /\ Rewritten(3)
    /\ out[5] = <<"M", "1", "0", "6", " ", "S", "-", "0", ".", "5", " ", "T", "0", "2", "\r", "\n">>

\* the whitespace-delimited tokens of s
RECURSIVE SkipNonSpace(_, _)
SkipNonSpace(s, p) ==
    IF p <= Len(s) /\ ~IsSpace(s[p]) THEN SkipNonSpace(s, p + 1) ELSE p

RECURSIVE TokensFrom(_, _)
TokensFrom(s, p) ==
    IF SkipSpace(s, p) > Len(s) THEN <<>>
    ELSE <<Slice(s, SkipSpace(s, p), SkipNonSpace(s, SkipSpace(s, p)) - 1)>>
         \o TokensFrom(s, SkipNonSpace(s, SkipSpace(s, p)))

Tokens(s) == TokensFrom(s, 1)

\* a tool parameter: T and digits, as a token of its own
IsToolToken(t) ==
    /\ Len(t) >= 2
    /\ Upper(t[1]) = "T"
    /\ \A i \in 2..Len(t) : IsDigit(t[i])

IsOtherToken(t) == ~IsToolToken(t)

\* the part of a line's text before its first ";"
CodeOf(line) ==
    LET c == Content(line)
        semis == { k \in DOMAIN c : c[k] = ";" }
    IN  IF semis = {} THEN c
        ELSE Slice(c, 1, (CHOOSE k \in semis : \A j \in semis : k <= j) - 1)

\* the part of a line's text from its first ";" on
CommentOf(line) == From(Content(line), Len(CodeOf(line)) + 1)

\* what C4 says of one step
C4_Step ==
    RewriteStep =>
        LET oc == Tokens(CodeOf(Added[1]))
            ic == Tokens(CodeOf(NewLine))
        IN  /\ SelectSeq(oc, IsToolToken) = << <<"T">> \o current_tool >>
            /\ oc[Len(oc)] = <<"T">> \o current_tool
            /\ SelectSeq(oc, IsOtherToken) = SelectSeq(ic, IsOtherToken)

\* C4: the code portion of a rewritten fan-speed line carries exactly one tool
\* parameter, T<current_tool>, as its last token, and every other parameter of
\* the input's code portion as it was.
C4_OneToolParamOthersKept == [][C4_Step]_vars

\* C5: running process_lines on its own output changes nothing.
C5_Idempotent == pc = "done" => ProcessLines(out) = out

\* what C6 says of one step
C6_Step ==
    LineStep =>
        /\ Terminator(NewLine) # "none" => Terminator(Added[1]) = Terminator(NewLine)
        /\ Len(Added) = 2 =>
            /\ Terminator(Added[2]) = Terminator(Added[1])
            /\ Terminator(NewLine) # "none" => Terminator(Added[2]) = Terminator(NewLine)

\* C6: a line read with CRLF is written with CRLF and a line read with LF with
\* LF, passed through or rewritten; a synthesized line ends with the terminator
\* of the tool-select line that triggered it.
C6_TerminatorKept == [][C6_Step]_vars

C6_Witness ==
    /\ pc = "done"
    /\ Len(out) = Len(lines) + 2
    /\ Terminator(lines[Len(lines)]) = "CRLF"
    /\ Terminator(out[Len(out)]) = "CRLF"
    /\ Terminator(out[Len(out) - 2]) = "LF"
    /\ \E i \in DOMAIN lines : Rewritten(i) /\ Terminator(lines[i]) = "CRLF"

\* what C7 says of one step
C7_Step ==
    (/\ LineStep
     /\ ~IsToolLine(NewLine)
     /\ IsFanKeyword(NewLine)
     /\ current_tool # None
     /\ CommentOf(NewLine) # <<>>) =>
        IF SpeedSearch(CodeOf(NewLine)) # None
        THEN /\ Added = << CodeOf(Added[1]) \o CommentOf(NewLine)
                           \o Slice(NewLine, Len(Content(NewLine)) + 1, Len(NewLine)) >>
             /\ EndsWith(CodeOf(Added[1]), <<" ", "T">> \o current_tool \o <<" ">>)
             /\ last_fan_speed' = SpeedSearch(CodeOf(NewLine))
        ELSE /\ Added = <<NewLine>>
             /\ UNCHANGED <<current_tool, last_fan_speed>>

\* C7: a rewritten fan-speed line with a ";" ends with the input's text from the
\* first ";" on, exactly one space after the appended T<current_tool>; a speed
\* token inside the comment is not recognized and a tool token inside it is not
\* removed.
C7_CommentKept == [][C7_Step]_vars

\* "M106 S50  ;S9 T3" under tool 1: two spaces become one, S9 and T3 stay
C7_Witness ==
    /\ pc = "done"
    /\ lines # <<>>
    /\ Content(lines[Len(lines)]) =
         M106 \o <<" ", "S", "5", "0", " ", " ", ";", "S", "9", " ", "T", "3">>
    /\ Content(out[Len(out)]) =
         M106 \o <<" ", "S", "5", "0", " ", "T", "1", " ", ";", "S", "9", " ", "T", "3">>
    /\ last_fan_speed = <<"5", "0">>

\* what C8 says of one step
C8_Step ==
    (LineStep /\ \A k \in DOMAIN lines : ~IsToolLine(lines[k])) =>
        /\ last_fan_speed = None
        /\ Len(Added) = 1
        /\ (~IsToolLine(NewLine) /\ IsFanKeyword(NewLine) /\ HasSpeed(NewLine)) =>
              /\ SameText(NewLine, Added[1])
              /\ last_fan_speed' = None

C8_Example ==
    LET ex == << M106 \o <<" ", "S", "5", "0", "\n">>, M108 \o <<" ", "T", "1", "\n">> >>
    IN  lines = ex => out = ex

\* C8: a fan-speed line with a speed parameter read before any tool-select line
\* is emitted unmodified and leaves last_fan_speed unset, so the first
\* tool-select line is followed by no synthesized line.
C8_UntaggedSpeedNotSaved == [][C8_Step]_vars /\ []C8_Example

C8_Witness ==
    /\ pc = "done"
    /\ lines = << M106 \o <<" ", "S", "5", "0", "\n">>, M108 \o <<" ", "T", "1", "\n">> >>
    /\ out = lines
    /\ last_fan_speed = None

\* what C9 says of one step
C9_Step ==
    (/\ LineStep
     /\ ~IsToolLine(NewLine)
     /\ IsFanKeyword(NewLine)
     /\ ~HasSpeed(NewLine)
     /\ current_tool # None) =>
        /\ Len(Added) = 1
        /\ SameText(NewLine, Added[1])
        /\ UNCHANGED <<current_tool, last_fan_speed>>

C9_Example ==
    LET ex == << M108 \o <<" ", "T", "1", "\n">>,
                 M106 \o <<" ", "S", "5", "0", "\n">>,
                 M106 \o <<"\n">>,
                 <<"m", "1", "0", "8", " ", " ", "t", "0", "2", "\r", "\n">> >>
    IN  lines = ex =>
          /\ Len(out) = 5
          /\ out[3] = ex[3]
          /\ out[5] = M106 \o <<" ", "S", "5", "0", " ", "T", "0", "2", "\r", "\n">>

\* C9: a fan-speed-keyword line without a speed parameter in its pre-comment
\* portion, read while a tool is set, is passed through unchanged and changes
\* neither current_tool nor last_fan_speed; the next tool-select line still
\* re-asserts the speed saved before it.
C9_NoSpeedPassThrough == [][C9_Step]_vars /\ []C9_Example

C9_Witness ==
    /\ pc = "done"
    /\ Len(lines) = 4
    /\ Len(out) = 5
    /\ Rewritten(2)
    /\ lines[3] = M106 \o <<"\n">>
    /\ IsToolLine(lines[4])
    /\ out[5] = M106 \o <<" ", "S", "5", "0", " ", "T", "0", "2", "\r", "\n">>

\* what C10 says of one step
C10_Step ==
    /\ (LineStep /\ IsToolLine(NewLine)) =>
          /\ current_tool' = ToolMatch(Stripped(NewLine))
          /\ last_fan_speed' = last_fan_speed
    /\ RewriteStep =>
          /\ current_tool' = current_tool
          /\ last_fan_speed' = SpeedSearch(CodeOf(NewLine))
    /\ ~(LineStep /\ IsToolLine(NewLine)) /\ ~RewriteStep =>
          UNCHANGED <<current_tool, last_fan_speed>>
    /\ current_tool # None => current_tool' # None
    /\ last_fan_speed # None => last_fan_speed' # None

\* C10: a tool-select line changes only current_tool, a rewritten fan-speed line
\* only last_fan_speed, any other line neither, and neither field is ever unset
\* once it is set.
C10_StateOnlyByTwoClasses == [][C10_Step]_vars

C10_Witness ==
    /\ pc = "done"
    /\ Len(lines) = 4
    /\ IsToolLine(lines[1])
    /\ Rewritten(2)
    /\ IsToolLine(lines[3])
    /\ ~IsToolLine(lines[4]) /\ ~Rewritten(4)
    /\ current_tool = <<"0", "2">>
    /\ last_fan_speed = <<"-", "0", ".", "5">>

\* the pairs <<d, e>> such that the text c is leading whitespace, M108 in either
\* case, one or more whitespace characters, T or t at d, and the digits up to
\* e - 1, all the digits there are
ToolPrefixes(c) ==
    { de \in (1..Len(c)) \X (1..(Len(c) + 1)) :
        LET d == de[1]
            e == de[2]
        IN  /\ e > d + 1
            /\ Upper(c[d]) = "T"
            /\ \A i \in (d + 1)..(e - 1) : IsDigit(c[i])
            /\ e <= Len(c) => ~IsDigit(c[e])
            /\ \E a \in 1..(d - 5) :
                /\ \A i \in 1..(a - 1) : IsSpace(c[i])
                /\ <<Upper(c[a]), c[a + 1], c[a + 2], c[a + 3]>> = <<"M", "1", "0", "8">>
                /\ \A i \in (a + 4)..(d - 1) : IsSpace(c[i]) }

\* the step treats the line it reads as a tool-select line with the digits
\* c[d+1..e-1]: current_tool is set to them, the line is emitted verbatim, and
\* the saved speed, if any, is re-asserted after it
ToolSelectEffect(c, d, e) ==
    /\ current_tool' = Slice(c, d + 1, e - 1)
    /\ SameText(NewLine, Added[1])
    /\ Len(Added) = IF last_fan_speed # None THEN 2 ELSE 1
    /\ Len(Added) = 2 =>
         Content(Added[2]) =
             M106 \o <<" ", "S">> \o last_fan_speed \o <<" ", "T">> \o Slice(c, d + 1, e - 1)

\* C11, as claimed: a line that begins with M108, whitespace, T and digits is a
\* tool-select line whatever follows that prefix.
C11_AnyTrailingContent ==
    [][ LineStep =>
          \A de \in ToolPrefixes(Content(NewLine)) :
              ToolSelectEffect(Content(NewLine), de[1], de[2]) ]_vars

\* C11, amended: a line that begins with M108, whitespace, T and digits is a
\* tool-select line whatever follows the digits, provided no letter or
\* underscore follows them directly: it sets current_tool to the digits, is
\* emitted verbatim and takes the insertion branch.
C11_PrefixMatchUpToWordBoundary ==
    [][ LineStep =>
          \A de \in ToolPrefixes(Content(NewLine)) :
              (de[2] > Len(Content(NewLine)) \/ ~IsWord(Content(NewLine)[de[2]])) =>
                  ToolSelectEffect(Content(NewLine), de[1], de[2]) ]_vars

\* " m108<tab> t02.5" read with tool 1 and speed 50 set
C11_Witness ==
    /\ pc = "done"
    /\ Len(lines) = 3
    /\ Len(out) = 4
    /\ Content(lines[3]) = <<" ", "m", "1", "0", "8", "\t", " ", "t", "0", "2", ".", "5">>
    /\ current_tool = <<"0", "2">>
    /\ out[3] = lines[3]
    /\ Content(out[4]) = M106 \o <<" ", "S", "5", "0", " ", "T", "0", "2">>

\* s from position p on without its whole-token tool parameters: a T and
\* digits with no letter, digit or underscore directly before or after them are
\* dropped together with the whitespace before them, every other character is
\* kept
RECURSIVE WithoutWholeToolTokens(_, _)
WithoutWholeToolTokens(s, p) ==
    LET a == SkipSpace(s, p)
        e == SkipDigits(s, a + 1)
        whole == /\ a <= Len(s)
                 /\ Upper(s[a]) = "T"
                 /\ e > a + 1
                 /\ a > 1 => ~IsWord(s[a - 1])
                 /\ e <= Len(s) => ~IsWord(s[e])
    IN  IF p > Len(s) THEN <<>>
        ELSE IF whole THEN WithoutWholeToolTokens(s, e)
        ELSE <<s[p]>> \o WithoutWholeToolTokens(s, p + 1)

\* C12: a rewrite removes only whole-token tool parameters from the code
\* portion; a T<digits> that ends a longer identifier (the T5 of XT5) stays, and
\* so does every character outside the removed tokens and the whitespace
\* before them.
C12_OnlyWholeTokensRemoved ==
    [][ RewriteStep =>
          RStrip(CodeOf(Added[1])) =
              RStrip(WithoutWholeToolTokens(CodeOf(NewLine), 1))
                  \o <<" ", "T">> \o current_tool ]_vars

\* s[a..b] is a number: an optional "-", digits, and optionally "." and digits
IsNumber(s, a, b) ==
    LET from == IF a <= b /\ s[a] = "-" THEN a + 1 ELSE a
    IN  /\ from <= b
        /\ IsDigit(s[from])
        /\ IsDigit(s[b])
        /\ \A i \in from..b : IsDigit(s[i]) \/ s[i] = "."
        /\ \A i, j \in from..b : s[i] = "." /\ s[j] = "." => i = j

\* the pairs <<p, e>> such that s[p] is S or s, s[p+1..e-1] is a number, and
\* neither the S nor the number touches a letter, digit or underscore outside
\* them: the whole-token speed parameters of s
SpeedTokens(s) ==
    LET starts == { p \in 1..Len(s) :
                      /\ Upper(s[p]) = "S"
                      /\ p > 1 => ~IsWord(s[p - 1]) }
    IN  { pe \in starts \X (1..(Len(s) + 1)) :
            /\ pe[2] > pe[1] + 1
            /\ pe[2] <= Len(s) => ~IsWord(s[pe[2]])
            /\ IsNumber(s, pe[1] + 1, pe[2] - 1) }

\* the first whole-token speed parameter of s, with its longest number
FirstSpeedToken(s) ==
    CHOOSE pe \in SpeedTokens(s) :
        \A qf \in SpeedTokens(s) :
            pe[1] < qf[1] \/ (pe[1] = qf[1] /\ pe[2] >= qf[2])

\* the step processes a fan-speed-keyword line while a tool is set
FanKeywordStep ==
    /\ LineStep
    /\ ~IsToolLine(NewLine)
    /\ IsFanKeyword(NewLine)
    /\ current_tool # None

\* C13: a fan-speed line read while a tool is set whose pre-comment portion has
\* no whole-token speed parameter (S<number> only inside a longer identifier, or
\* only a malformed number) is passed through unchanged with the state
\* unchanged; otherwise the first such parameter is the value saved in
\* last_fan_speed.
C13_SpeedIsWholeToken ==
    [][ FanKeywordStep =>
          LET code == CodeOf(NewLine)
              toks == SpeedTokens(code)
          IN  IF toks = {}
              THEN /\ Added = <<NewLine>>
                   /\ UNCHANGED <<current_tool, last_fan_speed>>
              ELSE /\ last_fan_speed' =
                        Slice(code, FirstSpeedToken(code)[1] + 1,
                              FirstSpeedToken(code)[2] - 1)
                   /\ Added # <<NewLine>> ]_vars

\* "M106 XS50 S1e5" was passed through under tool 1 with speed 50 kept, and
\* so was "M106S50"; "M106 s-0.5 S50" saves -0.5
C13_Witness ==
    /\ pc = "done"
    /\ Len(lines) = 3
    /\ current_tool = <<"1">>
    /\ \/ /\ Content(lines[3]) = M106 \o <<" ", "X", "S", "5", "0", " ", "S", "1", "e", "5">>
          /\ out[3] = lines[3]
          /\ last_fan_speed = <<"5", "0">>
       \/ /\ Content(lines[3]) = M106 \o <<" ", "s", "-", "0", ".", "5", " ", "S", "5", "0">>
          /\ last_fan_speed = <<"-", "0", ".", "5">>

\* the step reads a tool-select line and appends a synthesized line after it
SynthStep == LineStep /\ IsToolLine(NewLine) /\ Len(Added) = 2

\* C14 as stated: every synthesized line ends with LF, also after a tool-select
\* line that ends with CRLF.
C14_SynthAlwaysLF == [][SynthStep => Terminator(Added[2]) = "LF"]_vars

\* C14: a synthesized line ends with the terminator its tool-select line is
\* written with: CRLF after a tool-select line read with CRLF, LF after one read
\* with LF or without terminator.
C14_SynthTerminatorOfTrigger ==
    [][ SynthStep =>
          /\ Terminator(Added[2]) =
                IF Terminator(NewLine) = "CRLF" THEN "CRLF" ELSE "LF"
          /\ Content(Added[2]) =
                M106 \o <<" ", "S">> \o last_fan_speed \o <<" ", "T">> \o current_tool' ]_vars

\* a CRLF tool-select line got a CRLF synthesized line, and the unterminated
\* tool-select line after it an LF one
C14_Witness ==
    /\ pc = "done"
    /\ Len(lines) = 4
    /\ Len(out) = 6
    /\ IsToolLine(lines[3]) /\ Terminator(lines[3]) = "CRLF"
    /\ IsToolLine(lines[4]) /\ Terminator(lines[4]) = "none"
    /\ out[4] = M106 \o <<" ", "S", "5", "0", " ", "T", "0", "2">> \o CRLF
    /\ out[6] = M106 \o <<" ", "S", "5", "0", " ", "T", "3">> \o LF

\* C15: after every prefix of the input, a remembered speed implies a selected
\* tool, and the tool is a non-empty run of digits; so the line synthesized
\* after a tool-select line always carries a set, non-empty tool identifier.
C15_SpeedImpliesTool ==
    /\ [](last_fan_speed # None =>
            /\ current_tool # None
            /\ current_tool # <<>>
            /\ \A i \in DOMAIN current_tool : IsDigit(current_tool[i]))
    /\ [][ SynthStep =>
             /\ current_tool' # None
             /\ current_tool' # <<>>
             /\ \A i \in DOMAIN current_tool' : IsDigit(current_tool'[i])
             /\ EndsWith(Content(Added[2]), <<" ", "T">> \o current_tool') ]_vars

\* a speed was saved under tool 1 and re-asserted for tool 02
C15_Witness ==
    /\ Len(lines) = 3
    /\ Len(out) = 4
    /\ last_fan_speed = <<"-", "0", ".", "5">>
    /\ current_tool = <<"0", "2">>
    /\ EndsWith(Content(out[4]), <<" ", "T", "0", "2">>)

\* output line i is an M106 line with a whole-token speed parameter before its
\* comment, and a tool-select line comes before it in the output
TaggedLine(i) ==
    /\ ~IsToolLine(out[i])
    /\ IsFanKeyword(out[i])
    /\ SpeedTokens(CodeOf(out[i])) # {}
    /\ \E j \in 1..(i - 1) : IsToolLine(out[j])

\* the tool of the nearest tool-select line before output line i
ToolBefore(i) ==
    LET j == CHOOSE j \in 1..(i - 1) :
                /\ IsToolLine(out[j])
                /\ \A k \in (j + 1)..(i - 1) : ~IsToolLine(out[k])
    IN  ToolMatch(Stripped(out[j]))

\* C16: in the output, every M106 line with a whole-token speed parameter that
\* comes after a tool-select line carries the tool of the nearest tool-select
\* line before it as a tool parameter, and carries no other tool parameter.
C16_OutputTagged ==
    \A i \in DOMAIN out :
        TaggedLine(i) =>
            LET toks == Tokens(CodeOf(out[i]))
            IN  /\ \E k \in DOMAIN toks : toks[k] = <<"T">> \o ToolBefore(i)
                /\ \A k \in DOMAIN toks :
                      IsToolToken(toks[k]) => toks[k] = <<"T">> \o ToolBefore(i)

\* C17: for a fixed current_tool, a rewritten fan-speed line is a fixed point of
\* the rewrite: it is classified as a fan-speed line to rewrite again, and
\* rewriting it under the same tool yields the identical line, code portion,
\* separating space, comment and terminator.
C17_RewriteIdempotent ==
    [][ RewriteStep =>
          /\ IsFanRewrite(Added[1], current_tool)
          /\ FanRewriteLine(Added[1], current_tool) = Added[1] ]_vars

====
